---- MODULE Spec2Model ----
(***************************************************************************)
(* State-machine model of ack_6wd_controller::Ack6WDController             *)
(* (src/src/ack_6wd_controller.cpp): the lifecycle callbacks, the command  *)
(* subscriber, and the control tick update() with its staleness override,  *)
(* speed limiting, odometry update and Ackermann kinematics.               *)
(*                                                                         *)
(* Numbers.  Commands, geometry and time are integers.  Wheel speeds are   *)
(* kept exactly as  s * sqrt(n/d)  and steering angles as                  *)
(* s * c * (pi/2 - atan(n/d)), so the solver's real-valued results are     *)
(* compared exactly; floating-point rounding is not modelled.              *)
(***************************************************************************)
EXTENDS Integers, Sequences, FiniteSets, TLC

(***************************************************************************)
(* Bounds of the model.                                                    *)
(***************************************************************************)
\* the clock runs from 1 to MaxTime
MaxTime == 2
\* on_activate is explored while a handle list holds at most MaxHandles
MaxHandles == 4

\* the twists the command source sends: stop, a left turn while driving,
\* and turning on the spot (undefined geometry)
TwistChoices ==
  {[linear |-> 0, angular |-> 0], [linear |-> 1, angular |-> 1],
   [linear |-> 0, angular |-> 1]}

(***************************************************************************)
(* Arithmetic helpers.                                                     *)
(***************************************************************************)
Abs(x) == IF x < 0 THEN 0 - x ELSE x

Sgn(x) == IF x > 0 THEN 1 ELSE IF x < 0 THEN 0 - 1 ELSE 0

Min(a, b) == IF a < b THEN a ELSE b

Max(a, b) == IF a > b THEN a ELSE b

Clamp(x, lo, hi) == Min(Max(x, lo), hi)

RECURSIVE GCD(_, _)
GCD(a, b) == IF b = 0 THEN a ELSE GCD(b, a % b)

(***************************************************************************)
(* Wheel speed values: [k, s, n, d].  k = "fin": the real s * sqrt(n/d)    *)
(* with n/d in lowest terms; k = "inf": s * infinity; k = "nan".           *)
(***************************************************************************)
NaNv == [k |-> "nan", s |-> 0, n |-> 0, d |-> 1]

Infv(s) == [k |-> "inf", s |-> s, n |-> 1, d |-> 0]

Zerov == [k |-> "fin", s |-> 0, n |-> 0, d |-> 1]

\* s * sqrt(n/d) for n >= 0, d > 0
Finv(s, n, d) ==
  IF n = 0 \/ s = 0 THEN Zerov
  ELSE LET g == GCD(n, d) IN [k |-> "fin", s |-> s, n |-> n \div g, d |-> d \div g]

\* abs(p / q) for integers p, q, with IEEE results for q = 0
AbsDiv(p, q) ==
  IF q = 0 THEN (IF p = 0 THEN NaNv ELSE Infv(1))
  ELSE Finv(1, p * p, q * q)

\* abs(sqrt(n/m) / q) for n >= 0, m > 0
AbsSqrtDiv(n, m, q) ==
  IF q = 0 THEN (IF n = 0 THEN NaNv ELSE Infv(1))
  ELSE Finv(1, n, m * q * q)

\* v * c for an integer factor c
Scale(v, c) ==
  IF v.k = "nan" THEN NaNv
  ELSE IF v.k = "inf" THEN (IF c = 0 THEN NaNv ELSE Infv(v.s * Sgn(c)))
  ELSE Finv(v.s * Sgn(c), v.n * c * c, v.d)

IsNaN(v) == v.k = "nan"

IsZero(v) == v.k = "fin" /\ v.s = 0

(***************************************************************************)
(* Steering angle values: [k, s, c, n, d].  k = "zero": 0; k = "acot":     *)
(* the real s * c * (pi/2 - atan(n/d)) with c > 0, d > 0 and n/d in lowest *)
(* terms (pi/2 - atan lies in (0, pi)); k = "pi": s * c * pi; k = "nan".   *)
(***************************************************************************)
ZeroA == [k |-> "zero", s |-> 0, c |-> 1, n |-> 0, d |-> 1]

NaNA == [k |-> "nan", s |-> 0, c |-> 1, n |-> 0, d |-> 1]

PiA == [k |-> "pi", s |-> 1, c |-> 1, n |-> 0, d |-> 1]

\* M_PI/2 - atan(p / q), with IEEE results for q = 0
AcotA(p, q) ==
  IF q = 0 THEN (IF p > 0 THEN ZeroA ELSE IF p < 0 THEN PiA ELSE NaNA)
  ELSE LET g == GCD(Abs(p), Abs(q))
           sg == Sgn(q)
       IN [k |-> "acot", s |-> 1, c |-> 1, n |-> (sg * p) \div g, d |-> Abs(q) \div g]

\* a * f for an integer factor f
ScaleA(a, f) ==
  IF a.k = "nan" THEN NaNA
  ELSE IF a.k = "zero" \/ f = 0 THEN ZeroA
  ELSE [a EXCEPT !.s = a.s * Sgn(f), !.c = a.c * Abs(f)]

NegA(a) == ScaleA(a, 0 - 1)

IsNaNA(a) == a.k = "nan"

IsZeroA(a) == a.k = "zero"

NegV(v) == Scale(v, 0 - 1)

AbsV(v) == IF v.k = "nan" THEN NaNv ELSE [v EXCEPT !.s = Abs(v.s)]

AbsA(a) == IF a.k = "nan" THEN NaNA ELSE [a EXCEPT !.s = Abs(a.s)]

\* v < w for non-NaN speed values
LessV(v, w) ==
  LET neg(x) == x.s < 0
      \* magnitude order of two values of the same sign class
      magLess(x, y) ==
        IF x.k = "inf" THEN FALSE
        ELSE IF y.k = "inf" THEN TRUE
        ELSE x.n * y.d < y.n * x.d
  IN IF v.s # w.s THEN v.s < w.s
     ELSE IF neg(v) THEN magLess(w, v) ELSE magLess(v, w)

\* a < b for non-NaN, non-negative angle values
LessAbsA(a, b) ==
  IF a.k = "zero" THEN b.k # "zero"
  ELSE IF b.k = "zero" THEN FALSE
  ELSE IF a.k = "pi" /\ b.k = "pi" THEN a.c < b.c
  ELSE IF a.c # b.c THEN a.c < b.c
  ELSE IF a.k = "pi" THEN FALSE
  ELSE IF b.k = "pi" THEN TRUE
  ELSE a.n * b.d > b.n * a.d

(***************************************************************************)
(* Kinematics: quadrant, the direction matrix and the solver of update().  *)
(***************************************************************************)
\* a quadrant whose tie angular = 0 falls the other way
quadrantTieFlipped(linear, angular) ==
  IF linear > 0
    THEN (IF angular > 0 THEN 0 ELSE 1)
    ELSE (IF angular >= 0 THEN 2 ELSE 3)

quadrant(linear, angular) ==
  IF linear > 0
    THEN (IF angular >= 0 THEN 0 ELSE 1)
    ELSE (IF angular > 0 THEN 2 ELSE 3)

\* a direction matrix whose last row does not reverse the wheels
DirectionMatrixNoReverse ==
  << <<1, 1, 1, 1>>,
     <<0 - 1, 0 - 1, 1, 1>>,
     <<0 - 1, 0 - 1, 0 - 1, 0 - 1>>,
     <<1, 1, 1, 1>> >>

\* int d[4][4], rows indexed by quadrant 0..3, columns 1..4
DirectionMatrix ==
  << <<1, 1, 1, 1>>,
     <<0 - 1, 0 - 1, 1, 1>>,
     <<0 - 1, 0 - 1, 0 - 1, 0 - 1>>,
     <<1, 1, 0 - 1, 0 - 1>> >>

Dir(q, col) == DirectionMatrix[q + 1][col]

\* a geometry that ignores the radius multipliers
GeometryNoRadiusMultipliers(w) ==
  [wheel_base |-> w.base_multiplier * w.base,
   wheel_separation |-> w.separation_multiplier * w.separation,
   left_wheel_radius |-> w.radius,
   right_wheel_radius |-> w.radius,
   ang_vel_comp |-> w.angular_velocity_compensation,
   steering_correction |-> w.steering_angle_correction]

\* the multiplied geometry update() computes from wheel_params_
Geometry(w) ==
  [wheel_base |-> w.base_multiplier * w.base,
   wheel_separation |-> w.separation_multiplier * w.separation,
   left_wheel_radius |-> w.left_radius_multiplier * w.radius,
   right_wheel_radius |-> w.right_radius_multiplier * w.radius,
   ang_vel_comp |-> w.angular_velocity_compensation,
   steering_correction |-> w.steering_angle_correction]

\* abs(angular * axis / radius) * comp, where axis = abs(sep / (2 sin(angle)))
\* and angle = pi/2 - atan(p / (sep * |angular|)), p = 2|linear| -+ base*|angular|:
\* for sep # 0, |angular| * axis = sqrt(angular^2 sep^2 + p^2) / 2
AxisSpeed(angular, p, sep, radius, comp) ==
  LET angle == AcotA(p, sep * Abs(angular))
      raw == IF sep # 0 THEN AbsSqrtDiv(angular * angular * sep * sep + p * p, 4, radius)
             ELSE IF angle.k = "pi" THEN AbsDiv(0, radius)
             ELSE NaNv
  IN Scale(raw, comp)

\* the solver without its check of the turning radius
SolverCaseNoGuard(linear, angular) == IF angular = 0 THEN "straight" ELSE "curved"

\* the branch structure of the solver: "straight", "curved" or "undefined"
SolverCase(linear, angular) ==
  IF angular = 0 THEN "straight"
  ELSE IF linear # 0 THEN "curved"
  ELSE "undefined"

\* angle_left, angle_right, velocity_left, velocity_right, velocity_mid_left,
\* velocity_mid_right for a command the solver accepts
SolveNearFar(linear, angular, g) ==
  IF angular = 0
    THEN [angle_left |-> ZeroA, angle_right |-> ZeroA,
          velocity_left |-> AbsDiv(linear, g.left_wheel_radius),
          velocity_right |-> AbsDiv(linear, g.right_wheel_radius),
          velocity_mid_left |-> AbsDiv(linear, g.left_wheel_radius),
          velocity_mid_right |-> AbsDiv(linear, g.right_wheel_radius)]
    ELSE LET al == Abs(linear)
             aa == Abs(angular)
             pl == 2 * al - g.wheel_base * aa
             pr == 2 * al + g.wheel_base * aa
         IN [angle_left |-> AcotA(pl, g.wheel_separation * aa),
             angle_right |-> AcotA(pr, g.wheel_separation * aa),
             velocity_left |->
               AxisSpeed(angular, pl, g.wheel_separation, g.left_wheel_radius, g.ang_vel_comp),
             velocity_right |->
               AxisSpeed(angular, pr, g.wheel_separation, g.right_wheel_radius, g.ang_vel_comp),
             velocity_mid_left |->
               Scale(AbsDiv(al - g.wheel_base * aa, g.left_wheel_radius), g.ang_vel_comp),
             velocity_mid_right |->
               Scale(AbsDiv(al + g.wheel_base * aa, g.right_wheel_radius), g.ang_vel_comp)]

\* sin(a) = 0 for an angle the solver computes
SinIsZero(a) == a.k \in {"zero", "pi"}

\* some division of the solver has a zero denominator: by a wheel radius in
\* the straight branch; by the angular command, the wheel separation, the
\* sine of a steering angle or a wheel radius in the curved branch
SolverDividesByZero(linear, angular, g) ==
  IF angular = 0
    THEN g.left_wheel_radius = 0 \/ g.right_wheel_radius = 0
  ELSE IF linear # 0
    THEN LET nf == SolveNearFar(linear, angular, g)
         IN \/ angular = 0
            \/ g.wheel_separation = 0
            \/ SinIsZero(nf.angle_left) \/ SinIsZero(nf.angle_right)
            \/ g.left_wheel_radius = 0 \/ g.right_wheel_radius = 0
  ELSE FALSE

\* near = left in every quadrant, and in none
NearIsLeftAlways(q) == TRUE

NearIsLeftNever(q) == FALSE

\* true when quadrant q keeps near = left
NearIsLeft(q) == q = 0 \/ q = 3

\* the signed, side-assigned outputs, before the rad/s to rpm conversion
SolveSigned(linear, angular, g) ==
  LET nf == SolveNearFar(linear, angular, g)
      q == quadrant(linear, angular)
      keep == NearIsLeft(q)
  IN [steering_angle_left |->
        ScaleA(IF keep THEN nf.angle_left ELSE nf.angle_right,
               Dir(q, 1) * g.steering_correction),
      steering_angle_right |->
        ScaleA(IF keep THEN nf.angle_right ELSE nf.angle_left,
               Dir(q, 2) * g.steering_correction),
      wheel_velocity_left |->
        Scale(IF keep THEN nf.velocity_left ELSE nf.velocity_right, Dir(q, 3)),
      wheel_velocity_right |->
        Scale(IF keep THEN nf.velocity_right ELSE nf.velocity_left, Dir(q, 4)),
      wheel_velocity_mid_left |->
        Scale(IF keep THEN nf.velocity_mid_left ELSE nf.velocity_mid_right, Dir(q, 3)),
      wheel_velocity_mid_right |->
        Scale(IF keep THEN nf.velocity_mid_right ELSE nf.velocity_mid_left, Dir(q, 4))]

(***************************************************************************)
(* SpeedLimiter (speed_limiter.cpp is not among the sources: modelled from *)
(* the specification, section 4.1).                                        *)
(***************************************************************************)
\* a default-constructed limiter: no limit enabled
NoLimits ==
  [has_velocity_limits |-> FALSE, has_acceleration_limits |-> FALSE,
   has_jerk_limits |-> FALSE,
   min_velocity |-> 0, max_velocity |-> 0,
   min_acceleration |-> 0, max_acceleration |-> 0,
   min_jerk |-> 0, max_jerk |-> 0]

\* the constructor fails on inconsistent bounds of an enabled limit
LimiterThrows(l) ==
  \/ l.has_velocity_limits /\ l.min_velocity > l.max_velocity
  \/ l.has_acceleration_limits /\ l.min_acceleration > l.max_acceleration
  \/ l.has_jerk_limits /\ l.min_jerk > l.max_jerk

\* limit(v, v0, v1, dt): velocity clamp, then acceleration, then jerk
limit(l, v, v0, v1, dt) ==
  LET a == IF l.has_velocity_limits THEN Clamp(v, l.min_velocity, l.max_velocity) ELSE v
      b == IF l.has_acceleration_limits
             THEN v0 + Clamp(a - v0, l.min_acceleration * dt, l.max_acceleration * dt)
             ELSE a
      c == IF l.has_jerk_limits
             THEN v0 + (v0 - v1)
                  + Clamp((b - v0) - (v0 - v1), l.min_jerk * dt * dt, l.max_jerk * dt * dt)
             ELSE b
  IN c

(***************************************************************************)
(* Joints and parameters.                                                  *)
(***************************************************************************)
WheelJoints == {"wheel_lf", "wheel_lr", "wheel_rf", "wheel_rr", "wheel_mr", "wheel_ml"}

SteeringJoints == {"steer_lf", "steer_lr", "steer_rf", "steer_rr"}

Joints == WheelJoints \cup SteeringJoints

\* the joint name lists of the six-wheeled vehicle: front then rear on each
\* side; middle-right then middle-left (update() writes middle[0] as right)
VehicleNames ==
  [left_wheel_names |-> <<"wheel_lf", "wheel_lr">>,
   right_wheel_names |-> <<"wheel_rf", "wheel_rr">>,
   middle_wheel_names |-> <<"wheel_mr", "wheel_ml">>,
   left_steering_names |-> <<"steer_lf", "steer_lr">>,
   right_steering_names |-> <<"steer_rf", "steer_rr">>]

\* name lists on_configure is run with: the vehicle's, and one for each
\* check on_configure makes of them
RejectedNameChoices ==
  {[VehicleNames EXCEPT !.right_wheel_names = <<"wheel_rf">>],
   [VehicleNames EXCEPT !.left_wheel_names = <<>>, !.right_wheel_names = <<>>],
   [VehicleNames EXCEPT !.middle_wheel_names = <<>>],
   [VehicleNames EXCEPT !.right_steering_names = <<"steer_rf">>],
   [VehicleNames EXCEPT !.left_steering_names = <<>>, !.right_steering_names = <<>>]}

NameChoices == {VehicleNames} \cup RejectedNameChoices

\* geometry parameters on_configure is run with
GeometryChoices ==
  {[wheel_base |-> 1, wheel_separation |-> 1, wheels_per_side |-> 2, wheel_radius |-> 1,
    wheel_base_multiplier |-> 1, wheel_separation_multiplier |-> 1,
    left_wheel_radius_multiplier |-> 1, right_wheel_radius_multiplier |-> 1,
    angular_velocity_compensation |-> 1, steering_angle_correction |-> 1]}

\* limiter parameters (linear.x.*, angular.z.*) on_configure is run with
Unlimited == [linear |-> NoLimits, angular |-> NoLimits]

LimitedLinear ==
  [linear |-> [NoLimits EXCEPT !.has_acceleration_limits = TRUE,
                               !.min_acceleration = 0 - 1, !.max_acceleration = 1],
   angular |-> NoLimits]

\* cmd_vel_timeout, in halves of a clock unit
TimeoutChoices == {1}

\* 1 / publish_rate, in quarters of a clock unit
PublishPeriodChoices == {1}

\* limiter parameters whose enabled velocity limit has min > max
InconsistentLinear ==
  [linear |-> [NoLimits EXCEPT !.has_velocity_limits = TRUE,
                               !.min_velocity = 1, !.max_velocity = 0],
   angular |-> NoLimits]

InconsistentAngular ==
  [linear |-> NoLimits,
   angular |-> [NoLimits EXCEPT !.has_velocity_limits = TRUE,
                                !.min_velocity = 1, !.max_velocity = 0]]

\* (open_loop, use_stamped_vel, limiters) on_configure is run with
OpenLoopStamped == [open_loop |-> TRUE, use_stamped_vel |-> TRUE, limiters |-> Unlimited]

ModeChoices ==
  {OpenLoopStamped,
   [open_loop |-> FALSE, use_stamped_vel |-> TRUE, limiters |-> Unlimited],
   [open_loop |-> TRUE, use_stamped_vel |-> FALSE, limiters |-> LimitedLinear],
   [open_loop |-> TRUE, use_stamped_vel |-> TRUE, limiters |-> InconsistentLinear],
   [open_loop |-> TRUE, use_stamped_vel |-> TRUE, limiters |-> InconsistentAngular]}

\* the vehicle's names with every mode, and each rejected name list with
\* one mode (on_configure returns before it reads the mode)
ParamChoices ==
  {[names |-> c[1], geometry |-> g,
    limiters |-> c[2].limiters,
    open_loop |-> c[2].open_loop, use_stamped_vel |-> c[2].use_stamped_vel,
    cmd_vel_timeout |-> t, publish_period |-> pp] :
     c \in ({VehicleNames} \X ModeChoices) \cup (RejectedNameChoices \X {OpenLoopStamped}),
     g \in GeometryChoices, t \in TimeoutChoices, pp \in PublishPeriodChoices}

(***************************************************************************)
(* State.                                                                  *)
(***************************************************************************)
VARIABLES
  lifecycle,        \* lifecycle state of the node
  now,              \* node_->get_clock()->now()
  conf,             \* members set from parameters by on_configure
  subscription,     \* which command subscription exists: "none", "stamped", "unstamped"
  subscriber_is_active_,
  slot,             \* received_velocity_msg_ptr_: 0 (nullptr) or the id of a message object
  msgs,             \* the message objects the pointers refer to
  previous_commands_,
  odometry_,
  previous_update_timestamp_,
  previous_publish_timestamp_,   \* in quarters of a clock unit
  is_halted,
  registered,       \* the five registered handle lists
  setpoint,         \* value held by each joint's command interface
  rt,               \* position and locals of update() on the real-time thread
  cb,               \* position and locals of the subscriber callback
  last              \* what the last operation did

vars ==
  <<lifecycle, now, conf, subscription, subscriber_is_active_, slot, msgs,
    previous_commands_, odometry_, previous_update_timestamp_,
    previous_publish_timestamp_, is_halted, registered, setpoint, rt, cb, last>>

MsgIds == {1, 2}

\* a default-constructed TwistStamped: zero twist, zero stamp
EmptyTwist == [linear |-> 0, angular |-> 0, stamp |-> 0]

EmptyCommand == [linear |-> 0, angular |-> 0]

NoHandles ==
  [left_wheel |-> <<>>, right_wheel |-> <<>>, middle_wheel |-> <<>>,
   left_steering |-> <<>>, right_steering |-> <<>>]

\* WheelParams as declared, with its default member initialisers
DefaultWheelParams ==
  [wheels_per_side |-> 0, base |-> 0, separation |-> 0, radius |-> 0,
   base_multiplier |-> 1, separation_multiplier |-> 1,
   left_radius_multiplier |-> 1, right_radius_multiplier |-> 1,
   angular_velocity_compensation |-> 1, steering_angle_correction |-> 1]

DefaultConf ==
  [left_wheel_names_ |-> <<>>, right_wheel_names_ |-> <<>>, middle_wheel_names_ |-> <<>>,
   left_steering_names_ |-> <<>>, right_steering_names_ |-> <<>>,
   wheel_params_ |-> DefaultWheelParams,
   open_loop |-> FALSE, use_stamped_vel_ |-> TRUE,
   cmd_vel_timeout_ |-> 1, publish_period_ |-> 0,
   limiter_linear_ |-> NoLimits, limiter_angular_ |-> NoLimits]

(***************************************************************************)
(* Odometry (odometry.cpp is not among the sources: modelled from the      *)
(* specification, section 4.2).  The pose is kept as the list of the       *)
(* integration steps that moved it, so two poses are equal exactly when    *)
(* the same motion was integrated; the empty list is the zero pose.  The   *)
(* velocity estimate is the command in open loop and the content of the    *)
(* rolling windows in closed loop.                                         *)
(***************************************************************************)
\* velocity_rolling_window_size
RollingWindowSize == 1

OdometryInit ==
  [pose |-> <<>>, linear |-> <<>>, angular |-> <<>>, timestamp_ |-> 0]

resetOdometry(o) == [o EXCEPT !.pose = <<>>, !.linear = <<>>, !.angular = <<>>]

\* push a sample into a rolling window of RollingWindowSize samples
Accumulate(window, sample) ==
  LET w == Append(window, sample)
  IN IF Len(w) > RollingWindowSize THEN Tail(w) ELSE w

\* integrate (linear, angular) over dt: a step that does not move the pose
\* (dt = 0, or both velocities zero) leaves it as it is
Integrate(pose, linear, angular, isStill, dt) ==
  IF dt = 0 \/ isStill THEN pose
  ELSE Append(pose, [linear |-> linear, angular |-> angular, dt |-> dt])

\* a commanded velocity used as a velocity estimate
Cmdv(x) == [k |-> "cmd", v |-> x]

updateOpenLoop(o, linear, angular, time) ==
  [pose |-> Integrate(o.pose, <<Cmdv(linear)>>, <<Cmdv(angular)>>,
                      linear = 0 /\ angular = 0, time - o.timestamp_),
   linear |-> <<Cmdv(linear)>>, angular |-> <<Cmdv(angular)>>, timestamp_ |-> time]

\* a NaN or infinite input is not integrated: the estimate stays as it is
updateVel(o, angle, velocity, time) ==
  LET lin == Accumulate(o.linear, velocity)
      ang == Accumulate(o.angular, angle)
  IN IF velocity.k # "fin" \/ angle.k = "nan" THEN o
     ELSE [pose |-> Integrate(o.pose, lin, ang,
                              (\A i \in 1..Len(lin) : IsZero(lin[i]))
                                /\ (\A i \in 1..Len(ang) : IsZeroA(ang[i])),
                              time - o.timestamp_),
           linear |-> lin, angular |-> ang, timestamp_ |-> time]

(***************************************************************************)
(* What the last operation did (history variable read by the properties).  *)
(***************************************************************************)
\* op: the operation; ret: what it returned; at: for update(), where the
\* tick ended, and for a stored command, whether the message came with a
\* stamp ("stamped") or without one ("unset"); published: for update(),
\* whether it published the odometry
NoLast == [op |-> "init", ret |-> "none", at |-> "none", published |-> FALSE]

Did(op, ret) == [NoLast EXCEPT !.op = op, !.ret = ret]

(***************************************************************************)
(* Initial state: a constructed controller, before any lifecycle callback. *)
(* The command interfaces belong to the hardware, which initialises them   *)
(* to zero, to NaN or to an infinite value.                                *)
(***************************************************************************)
HardwareInitial ==
  {[j \in Joints |-> IF j \in WheelJoints THEN Zerov ELSE ZeroA],
   [j \in Joints |-> IF j \in WheelJoints THEN NaNv ELSE NaNA],
   [j \in Joints |-> IF j \in WheelJoints THEN Infv(1) ELSE ZeroA]}

\* the controller is in a primary state: the process runs, no transition is
\* being processed and the controller has not been shut down
Running == lifecycle \in {"unconfigured", "inactive", "active"}

\* update() between ticks.  ptr: last_msg; time: current_time; stale: what
\* it decided from the stamp it read; paired: the twist that was stored
\* together with that stamp (<<>> when the stamp was read from a message
\* whose twist had already been overwritten)
RtIdle == [pc |-> "idle", ptr |-> 0, time |-> 0, stale |-> FALSE, paired |-> <<>>]

\* the subscriber callback between messages.  ptr: twist_stamped; linear,
\* angular: the message being handled
CbIdle == [pc |-> "idle", ptr |-> 0, linear |-> 0, angular |-> 0]

Init ==
  /\ lifecycle = "unconfigured"
  /\ now = 1
  /\ conf = DefaultConf
  /\ subscription = "none"
  /\ subscriber_is_active_ = FALSE
  /\ slot = 0
  /\ msgs = [i \in MsgIds |-> EmptyTwist]
  /\ previous_commands_ = <<>>
  /\ odometry_ = OdometryInit
  /\ previous_update_timestamp_ = 0
  /\ previous_publish_timestamp_ = 0
  /\ is_halted = FALSE
  /\ registered = NoHandles
  /\ setpoint \in HardwareInitial
  /\ rt = RtIdle
  /\ cb = CbIdle
  /\ last = NoLast

(***************************************************************************)
(* reset() and the lifecycle callbacks.                                    *)
(***************************************************************************)
\* a reset() that leaves the registered handle lists as they are
ResetKeepsHandles(after) ==
  /\ odometry_' = resetOdometry(odometry_)
  /\ previous_commands_' = after.previous_commands_
  /\ UNCHANGED registered
  /\ subscriber_is_active_' = FALSE
  /\ subscription' = after.subscription
  /\ slot' = after.slot
  /\ msgs' = [i \in MsgIds |-> EmptyTwist]
  /\ is_halted' = FALSE

\* reset().  The callers that assign the command slot and the history after
\* it returns pass the values they leave there; reset() itself leaves
\* nullptr and an empty queue (ResetOnly).
Reset(after) ==
  /\ odometry_' = resetOdometry(odometry_)
  /\ previous_commands_' = after.previous_commands_
  /\ registered' = NoHandles
  /\ subscriber_is_active_' = FALSE
  /\ subscription' = after.subscription
  /\ slot' = after.slot
  /\ msgs' = [i \in MsgIds |-> EmptyTwist]
  /\ is_halted' = FALSE

ResetOnly == [slot |-> 0, previous_commands_ |-> <<>>, subscription |-> "none"]

\* wheel name checks without the check of the middle wheel names
WheelNamesRejectedNoMiddle(n) ==
  \/ Len(n.left_wheel_names) # Len(n.right_wheel_names)
  \/ Len(n.left_wheel_names) = 0

\* the checks of the wheel name lists, in the order on_configure makes them
WheelNamesRejected(n) ==
  \/ Len(n.left_wheel_names) # Len(n.right_wheel_names)
  \/ Len(n.left_wheel_names) = 0
  \/ Len(n.middle_wheel_names) = 0

SteeringNamesRejected(n) ==
  \/ Len(n.left_steering_names) # Len(n.right_steering_names)
  \/ Len(n.left_steering_names) = 0

\* conf after on_configure has read its parameters up to the limiters
Configured(p) ==
  [left_wheel_names_ |-> p.names.left_wheel_names,
   right_wheel_names_ |-> p.names.right_wheel_names,
   middle_wheel_names_ |-> p.names.middle_wheel_names,
   left_steering_names_ |-> p.names.left_steering_names,
   right_steering_names_ |-> p.names.right_steering_names,
   wheel_params_ |->
     [wheels_per_side |-> Len(p.names.left_wheel_names),
      base |-> p.geometry.wheel_base,
      separation |-> p.geometry.wheel_separation,
      radius |-> p.geometry.wheel_radius,
      base_multiplier |-> p.geometry.wheel_base_multiplier,
      separation_multiplier |-> p.geometry.wheel_separation_multiplier,
      left_radius_multiplier |-> p.geometry.left_wheel_radius_multiplier,
      right_radius_multiplier |-> p.geometry.right_wheel_radius_multiplier,
      angular_velocity_compensation |-> p.geometry.angular_velocity_compensation,
      steering_angle_correction |-> p.geometry.steering_angle_correction],
   open_loop |-> p.open_loop,
   use_stamped_vel_ |-> p.use_stamped_vel,
   cmd_vel_timeout_ |-> p.cmd_vel_timeout,
   publish_period_ |-> p.publish_period,
   limiter_linear_ |->
     IF LimiterThrows(p.limiters.linear) THEN conf.limiter_linear_ ELSE p.limiters.linear,
   limiter_angular_ |->
     IF LimiterThrows(p.limiters.angular) THEN conf.limiter_angular_ ELSE p.limiters.angular]

\* on_configure returning ERROR at one of the name checks: only the name
\* lists read so far have been assigned
OnConfigureError(p) ==
  /\ lifecycle = "unconfigured"
  /\ WheelNamesRejected(p.names) \/ SteeringNamesRejected(p.names)
  /\ conf' =
       IF WheelNamesRejected(p.names)
         THEN [conf EXCEPT !.left_wheel_names_ = p.names.left_wheel_names,
                           !.right_wheel_names_ = p.names.right_wheel_names,
                           !.middle_wheel_names_ = p.names.middle_wheel_names]
         ELSE [conf EXCEPT !.left_wheel_names_ = p.names.left_wheel_names,
                           !.right_wheel_names_ = p.names.right_wheel_names,
                           !.middle_wheel_names_ = p.names.middle_wheel_names,
                           !.left_steering_names_ = p.names.left_steering_names,
                           !.right_steering_names_ = p.names.right_steering_names]
  /\ lifecycle' = "errorprocessing"
  /\ last' = Did("on_configure", "ERROR")
  /\ UNCHANGED <<now, subscription, subscriber_is_active_, slot, msgs, previous_commands_,
                 odometry_, previous_update_timestamp_, previous_publish_timestamp_,
                 is_halted, registered, setpoint, rt, cb>>

\* a SpeedLimiter constructor throws: the exception is caught and logged,
\* and on_configure goes on with the limiter it had
LimiterFailed(p) == LimiterThrows(p.limiters.linear) \/ LimiterThrows(p.limiters.angular)

\* on_configure returning SUCCESS (at: "limiter" when a limiter constructor
\* threw on the way)
OnConfigureSuccess(p) ==
  /\ lifecycle = "unconfigured"
  /\ ~WheelNamesRejected(p.names)
  /\ ~SteeringNamesRejected(p.names)
  /\ conf' = Configured(p)
  /\ Reset([slot |-> 1,
            previous_commands_ |-> <<EmptyCommand, EmptyCommand>>,
            subscription |-> IF p.use_stamped_vel THEN "stamped" ELSE "unstamped"])
  /\ previous_publish_timestamp_' = 4 * now
  /\ previous_update_timestamp_' = now
  /\ lifecycle' = "inactive"
  /\ last' = [Did("on_configure", "SUCCESS") EXCEPT
                !.at = IF LimiterFailed(p) THEN "limiter" ELSE "none"]
  /\ UNCHANGED <<now, setpoint, rt, cb>>

on_configure == \E p \in ParamChoices : OnConfigureError(p) \/ OnConfigureSuccess(p)

\* configure_side_wheel / configure_side_steering: a handle is appended for
\* each name in turn until one has no interface; a handle is the joint whose
\* interfaces it refers to
Handle(j) == j

RECURSIVE RegisterSide(_, _, _)
RegisterSide(names, handles, avail) ==
  IF names = <<>> \/ Head(names) \notin avail THEN handles
  ELSE RegisterSide(Tail(names), Append(handles, Handle(Head(names))), avail)

SideFails(names, avail) == names = <<>> \/ \E i \in 1..Len(names) : names[i] \notin avail

\* the interface sets on_activate is run with: all joints, or one missing
InterfaceChoices == {Joints, Joints \ {"wheel_rr"}}

Registered(avail) ==
  [left_wheel |-> RegisterSide(conf.left_wheel_names_, registered.left_wheel, avail),
   right_wheel |-> RegisterSide(conf.right_wheel_names_, registered.right_wheel, avail),
   middle_wheel |-> RegisterSide(conf.middle_wheel_names_, registered.middle_wheel, avail),
   left_steering |->
     RegisterSide(conf.left_steering_names_, registered.left_steering, avail),
   right_steering |->
     RegisterSide(conf.right_steering_names_, registered.right_steering, avail)]

ActivateFails(avail) ==
  \/ SideFails(conf.left_wheel_names_, avail)
  \/ SideFails(conf.right_wheel_names_, avail)
  \/ SideFails(conf.left_steering_names_, avail)
  \/ SideFails(conf.right_steering_names_, avail)
  \/ SideFails(conf.middle_wheel_names_, avail)
  \/ \E side \in DOMAIN registered : Registered(avail)[side] = <<>>

\* an on_activate that does not clear is_halted
on_activate_keeps_halted ==
  \E avail \in InterfaceChoices :
    /\ lifecycle = "inactive"
    /\ Len(registered.left_wheel) + Len(conf.left_wheel_names_) <= MaxHandles
    /\ registered' = Registered(avail)
    /\ IF ActivateFails(avail)
         THEN /\ lifecycle' = "errorprocessing"
              /\ last' = Did("on_activate", "ERROR")
              /\ UNCHANGED subscriber_is_active_
         ELSE /\ subscriber_is_active_' = TRUE
              /\ lifecycle' = "active"
              /\ last' = Did("on_activate", "SUCCESS")
    /\ UNCHANGED <<now, conf, subscription, slot, msgs, previous_commands_, odometry_,
                   previous_update_timestamp_, previous_publish_timestamp_, is_halted,
                   setpoint, rt, cb>>

on_activate ==
  \E avail \in InterfaceChoices :
    /\ lifecycle = "inactive"
    /\ Len(registered.left_wheel) + Len(conf.left_wheel_names_) <= MaxHandles
    /\ registered' = Registered(avail)
    /\ IF ActivateFails(avail)
         THEN /\ lifecycle' = "errorprocessing"
              /\ last' = Did("on_activate", "ERROR")
              /\ UNCHANGED <<is_halted, subscriber_is_active_>>
         ELSE /\ is_halted' = FALSE
              /\ subscriber_is_active_' = TRUE
              /\ lifecycle' = "active"
              /\ last' = Did("on_activate", "SUCCESS")
    /\ UNCHANGED <<now, conf, subscription, slot, msgs, previous_commands_, odometry_,
                   previous_update_timestamp_, previous_publish_timestamp_, setpoint,
                   rt, cb>>

on_deactivate ==
  /\ lifecycle = "active"
  /\ subscriber_is_active_' = FALSE
  /\ lifecycle' = "inactive"
  /\ last' = Did("on_deactivate", "SUCCESS")
  /\ UNCHANGED <<now, conf, subscription, slot, msgs, previous_commands_, odometry_,
                 previous_update_timestamp_, previous_publish_timestamp_, is_halted,
                 registered, setpoint, rt, cb>>

on_cleanup ==
  /\ lifecycle = "inactive"
  /\ Reset([ResetOnly EXCEPT !.slot = 1])
  /\ lifecycle' = "unconfigured"
  /\ last' = Did("on_cleanup", "SUCCESS")
  /\ UNCHANGED <<now, conf, previous_update_timestamp_, previous_publish_timestamp_,
                 setpoint, rt, cb>>

on_error ==
  /\ lifecycle = "errorprocessing"
  /\ Reset(ResetOnly)
  /\ lifecycle' = "unconfigured"
  /\ last' = Did("on_error", "SUCCESS")
  /\ UNCHANGED <<now, conf, previous_update_timestamp_, previous_publish_timestamp_,
                 setpoint, rt, cb>>

on_shutdown ==
  /\ lifecycle \in {"unconfigured", "inactive", "active"}
  /\ lifecycle' = "finalized"
  /\ last' = Did("on_shutdown", "SUCCESS")
  /\ UNCHANGED <<now, conf, subscription, subscriber_is_active_, slot, msgs,
                 previous_commands_, odometry_, previous_update_timestamp_,
                 previous_publish_timestamp_, is_halted, registered, setpoint, rt, cb>>

(***************************************************************************)
(* The command subscriber callbacks (run as one step).                     *)
(***************************************************************************)
\* the message object a newly stored pointer refers to: one the real-time
\* thread holds no pointer to
FreshId == IF rt.ptr = 1 THEN 2 ELSE 1

\* the objects after the slot moves to object id holding m: an object no
\* pointer refers to any more is released
Stored(id, m) ==
  [i \in MsgIds |-> IF i = id THEN m ELSE IF i = rt.ptr THEN msgs[i] ELSE EmptyTwist]

\* what a stored command leaves in last
DidStore(stamp) ==
  [Did("command", "stored") EXCEPT !.at = IF stamp = 0 THEN "unset" ELSE "stamped"]

\* a stamped subscriber that stores the stamp as it came
StampedCallbackKeepsStamp(linear, angular, stamp) ==
  /\ subscription = "stamped"
  /\ Running
  /\ IF ~subscriber_is_active_
       THEN /\ UNCHANGED <<slot, msgs>>
            /\ last' = Did("command", "ignored")
       ELSE /\ slot' = FreshId
            /\ msgs' = Stored(FreshId, [linear |-> linear, angular |-> angular,
                                        stamp |-> stamp])
            /\ last' = DidStore(stamp)
  /\ UNCHANGED <<lifecycle, now, conf, subscription, subscriber_is_active_,
                 previous_commands_, odometry_, previous_update_timestamp_,
                 previous_publish_timestamp_, is_halted, registered, setpoint, rt, cb>>

\* stamped subscriber: a zero stamp is replaced by now, then the pointer is set
StampedCallback(linear, angular, stamp) ==
  /\ subscription = "stamped"
  /\ Running
  /\ IF ~subscriber_is_active_
       THEN /\ UNCHANGED <<slot, msgs>>
            /\ last' = Did("command", "ignored")
       ELSE /\ slot' = FreshId
            /\ msgs' = Stored(FreshId, [linear |-> linear, angular |-> angular,
                                        stamp |-> IF stamp = 0 THEN now ELSE stamp])
            /\ last' = DidStore(stamp)
  /\ UNCHANGED <<lifecycle, now, conf, subscription, subscriber_is_active_,
                 previous_commands_, odometry_, previous_update_timestamp_,
                 previous_publish_timestamp_, is_halted, registered, setpoint, rt, cb>>

\* an unstamped subscriber that does not look at subscriber_is_active_
UnstampedCallbackUngated(linear, angular) ==
  /\ subscription = "unstamped"
  /\ Running
  /\ slot # 0
  /\ msgs' = [msgs EXCEPT ![slot] =
                [linear |-> linear, angular |-> angular, stamp |-> now]]
  /\ last' = DidStore(0)
  /\ UNCHANGED <<lifecycle, now, conf, subscription, subscriber_is_active_, slot,
                 previous_commands_, odometry_, previous_update_timestamp_,
                 previous_publish_timestamp_, is_halted, registered, setpoint, rt, cb>>

\* unstamped subscriber: the stored object is overwritten in place
UnstampedCallback(linear, angular) ==
  /\ subscription = "unstamped"
  /\ Running
  /\ IF ~subscriber_is_active_
       THEN /\ UNCHANGED <<slot, msgs>>
            /\ last' = Did("command", "ignored")
       ELSE /\ slot # 0
            /\ msgs' = [msgs EXCEPT ![slot] =
                          [linear |-> linear, angular |-> angular, stamp |-> now]]
            /\ UNCHANGED slot
            /\ last' = DidStore(0)
  /\ UNCHANGED <<lifecycle, now, conf, subscription, subscriber_is_active_,
                 previous_commands_, odometry_, previous_update_timestamp_,
                 previous_publish_timestamp_, is_halted, registered, setpoint, rt, cb>>

\* a message arrives on the stamped topic: its stamp is unset (0) or an
\* earlier time
StampedCommand ==
  \E twist \in TwistChoices, stamp \in 0..(now - 1) :
    StampedCallback(twist.linear, twist.angular, stamp)

\* a message arrives on the unstamped topic
UnstampedCommand ==
  \E twist \in TwistChoices : UnstampedCallback(twist.linear, twist.angular)

Command == StampedCommand \/ UnstampedCommand

\* the clock advances
AdvanceTime ==
  /\ now < MaxTime
  /\ Running
  /\ now' = now + 1
  /\ last' = Did("clock", "none")
  /\ UNCHANGED <<lifecycle, conf, subscription, subscriber_is_active_, slot, msgs,
                 previous_commands_, odometry_, previous_update_timestamp_,
                 previous_publish_timestamp_, is_halted, registered, setpoint, rt, cb>>

(***************************************************************************)
(* update().  Wheel setpoints are kept in the solver's unit; the interface *)
(* holds them times 60/6.283 and a closed-loop reading is that times       *)
(* 2*3.14/60, a positive factor that keeps sign, zero, NaN and infinity.   *)
(***************************************************************************)
\* halt(): zero through every registered handle
RECURSIVE ApplyWrites(_, _)
ApplyWrites(sp, writes) ==
  IF writes = <<>> THEN sp
  ELSE ApplyWrites([sp EXCEPT ![Head(writes)[1]] = Head(writes)[2]], Tail(writes))

JointsOf(handles) == {handles[i] : i \in 1..Len(handles)}

\* a halt() that writes nothing
haltNothing(sp) == sp

halt(sp) ==
  [j \in Joints |->
     IF j \in JointsOf(registered.left_wheel) \cup JointsOf(registered.right_wheel)
              \cup JointsOf(registered.middle_wheel) THEN Zerov
     ELSE IF j \in JointsOf(registered.left_steering) \cup JointsOf(registered.right_steering)
       THEN ZeroA
     ELSE sp[j]]

\* the inactive branch of update()
UpdateInactive ==
  /\ lifecycle = "inactive"
  /\ setpoint' = IF is_halted THEN setpoint ELSE halt(setpoint)
  /\ is_halted' = TRUE
  /\ last' = [Did("update", "OK") EXCEPT !.at = "inactive"]
  /\ UNCHANGED <<lifecycle, now, conf, subscription, subscriber_is_active_, slot, msgs,
                 previous_commands_, odometry_, previous_update_timestamp_,
                 previous_publish_timestamp_, registered, rt, cb>>

\* dt > cmd_vel_timeout_ for a message read at time t
IsStale(m, t) == 2 * (t - m.stamp) > conf.cmd_vel_timeout_

\* no staleness override
OverriddenNever(m, t) == m

\* a staleness override that replaces the whole message, stamp included
OverriddenWhole(m, t) == IF IsStale(m, t) THEN EmptyTwist ELSE m

\* the stored message after the staleness override
Overridden(m, t) == IF IsStale(m, t) THEN [m EXCEPT !.linear = 0, !.angular = 0] ELSE m

\* closed loop: the readings of index 1..wheels_per_side
Wps == conf.wheel_params_.wheels_per_side

Reading(side, i) == setpoint[registered[side][i]]

FeedbackSides == {"left_wheel", "right_wheel", "left_steering", "right_steering"}

\* an index the feedback loop reads that some handle list does not have
MissingAt(i) == \E side \in FeedbackSides : Len(registered[side]) < i

\* no check of the readings
NaNAtNever(i) == FALSE

NaNAt(i) ==
  \/ IsNaN(Reading("left_wheel", i)) \/ IsNaN(Reading("right_wheel", i))
  \/ IsNaNA(Reading("left_steering", i)) \/ IsNaNA(Reading("right_steering", i))

\* the loop's outcome: "ub" when it indexes past a handle list before it
\* has returned, "nan" when it returns ERROR, "ok" when it completes
RECURSIVE FeedbackOutcome(_)
FeedbackOutcome(i) ==
  IF i > Wps THEN "ok"
  ELSE IF MissingAt(i) THEN "ub"
  ELSE IF NaNAt(i) THEN "nan"
  ELSE FeedbackOutcome(i + 1)

\* the mean of the absolute readings of one side (equal readings have
\* themselves as mean)
MeanOf(vals) ==
  IF \A i \in 1..Wps : vals[i] = vals[1] THEN vals[1]
  ELSE [k |-> "mean", of |-> vals]

MeanAbsV(side) == MeanOf([i \in 1..Wps |-> AbsV(Reading(side, i))])

MeanAbsA(side) == MeanOf([i \in 1..Wps |-> AbsA(Reading(side, i))])

\* velocity_encoder and angle_encoder
Encoders ==
  LET q == quadrant(Reading("left_wheel", 1).s, Reading("left_steering", 1).s)
      lv == MeanAbsV("left_wheel")
      rv == MeanAbsV("right_wheel")
      la == MeanAbsA("left_steering")
      ra == MeanAbsA("right_steering")
      vmin == IF LessV(rv, lv) THEN rv ELSE lv
      amax == IF LessAbsA(la, ra) THEN ra ELSE la
  IN [velocity |-> Scale(vmin, IF q = 0 \/ q = 1 THEN 1 ELSE 0 - 1),
      angle |-> ScaleA(amax, IF q = 0 \/ q = 2 THEN 1 ELSE 0 - 1)]

\* the handle writes of the last part of update(), in order; a write whose
\* index lies past its handle list is marked with joint "none"
TargetOf(side, i) ==
  IF i <= Len(registered[side]) THEN registered[side][i] ELSE "none"

\* handle writes that give the rear steering the front values
SetpointWritesNoCounterSteer(out) ==
  LET wheel(i) == << <<TargetOf("left_wheel", i), out.wheel_velocity_left>>,
                     <<TargetOf("right_wheel", i), out.wheel_velocity_right>> >>
      RECURSIVE wheels(_)
      wheels(i) == IF i > Wps THEN <<>> ELSE wheel(i) \o wheels(i + 1)
  IN wheels(1) \o
     << <<TargetOf("middle_wheel", 1), out.wheel_velocity_mid_right>>,
        <<TargetOf("middle_wheel", 2), out.wheel_velocity_mid_left>>,
        <<TargetOf("left_steering", 1), out.steering_angle_left>>,
        <<TargetOf("right_steering", 1), NegA(out.steering_angle_right)>>,
        <<TargetOf("left_steering", 2), out.steering_angle_left>>,
        <<TargetOf("right_steering", 2), NegA(out.steering_angle_right)>> >>

SetpointWrites(out) ==
  LET wheel(i) == << <<TargetOf("left_wheel", i), out.wheel_velocity_left>>,
                     <<TargetOf("right_wheel", i), out.wheel_velocity_right>> >>
      RECURSIVE wheels(_)
      wheels(i) == IF i > Wps THEN <<>> ELSE wheel(i) \o wheels(i + 1)
  IN wheels(1) \o
     << <<TargetOf("middle_wheel", 1), out.wheel_velocity_mid_right>>,
        <<TargetOf("middle_wheel", 2), out.wheel_velocity_mid_left>>,
        <<TargetOf("left_steering", 1), out.steering_angle_left>>,
        <<TargetOf("right_steering", 1), NegA(out.steering_angle_right)>>,
        <<TargetOf("left_steering", 2), NegA(out.steering_angle_left)>>,
        <<TargetOf("right_steering", 2), out.steering_angle_right>> >>

WritesInRange(writes) == \A i \in 1..Len(writes) : writes[i][1] # "none"

\* update() from the copy of the command on: what the tick returns and
\* leaves in each variable it assigns.  at names where it ends: "raw"
\* (undefined geometry before limiting), "feedback" (NaN reading),
\* "limited" (undefined geometry after limiting), "end"; ubAt names the
\* first statement with undefined behaviour, if the tick reaches one.
Tick(linear, angular, t) ==
  LET g == Geometry(conf.wheel_params_)
      unchanged ==
        [ret |-> "ERROR", at |-> "raw", ubAt |-> "none", published |-> FALSE,
         odometry |-> odometry_, publish |-> previous_publish_timestamp_,
         update |-> previous_update_timestamp_, history |-> previous_commands_,
         setpoint |-> setpoint]
      fb == IF conf.open_loop THEN "ok" ELSE FeedbackOutcome(1)
      enc == Encoders
      odo1 == IF conf.open_loop THEN updateOpenLoop(odometry_, linear, angular, t)
              ELSE updateVel(odometry_, enc.angle, enc.velocity, t)
      pub == previous_publish_timestamp_ + conf.publish_period_ < 4 * t
      update_dt == t - previous_update_timestamp_
      afterOdo ==
        [unchanged EXCEPT
           !.odometry = odo1,
           !.published = pub,
           !.publish = IF pub THEN previous_publish_timestamp_ + conf.publish_period_
                       ELSE previous_publish_timestamp_,
           !.update = t]
      last_command == previous_commands_[Len(previous_commands_)]
      second_to_last_command == previous_commands_[1]
      lim == [linear |-> limit(conf.limiter_linear_, linear, last_command.linear,
                               second_to_last_command.linear, update_dt),
              angular |-> limit(conf.limiter_angular_, angular, last_command.angular,
                                second_to_last_command.angular, update_dt)]
      afterLimit ==
        [afterOdo EXCEPT !.history = Append(Tail(previous_commands_), lim)]
      writes == SetpointWrites(SolveSigned(lim.linear, lim.angular, g))
  IN IF angular # 0 /\ linear = 0 THEN unchanged
     ELSE IF fb = "ub" THEN [unchanged EXCEPT !.ret = "UB", !.ubAt = "feedback"]
     ELSE IF fb = "nan" THEN [unchanged EXCEPT !.at = "feedback"]
     ELSE IF Len(previous_commands_) = 0
       THEN [afterOdo EXCEPT !.ret = "UB", !.ubAt = "history"]
     ELSE IF SolverCase(lim.linear, lim.angular) = "undefined"
       THEN [afterLimit EXCEPT !.at = "limited"]
     ELSE IF ~WritesInRange(writes)
       THEN [afterLimit EXCEPT !.ret = "UB", !.ubAt = "write"]
     ELSE [afterLimit EXCEPT !.ret = "OK", !.at = "end",
                             !.setpoint = ApplyWrites(setpoint, writes)]

\* the variables a tick assigns, from its result r
TickEffects(r) ==
  /\ odometry_' = r.odometry
  /\ previous_publish_timestamp_' = r.publish
  /\ previous_update_timestamp_' = r.update
  /\ previous_commands_' = r.history
  /\ setpoint' = r.setpoint

TickLast(r) ==
  [Did("update", r.ret) EXCEPT !.at = IF r.ubAt # "none" THEN r.ubAt ELSE r.at,
                               !.published = r.published]

\* update() with no stored command
UpdateNull ==
  /\ lifecycle \in {"unconfigured", "active"}
  /\ slot = 0
  /\ last' = [Did("update", "ERROR") EXCEPT !.at = "null"]
  /\ UNCHANGED <<lifecycle, now, conf, subscription, subscriber_is_active_, slot, msgs,
                 previous_commands_, odometry_, previous_update_timestamp_,
                 previous_publish_timestamp_, is_halted, registered, setpoint, rt, cb>>

\* update() past the inactive branch, with a stored command, free of
\* undefined behaviour
UpdateTick ==
  /\ lifecycle \in {"unconfigured", "active"}
  /\ slot # 0
  /\ LET m == Overridden(msgs[slot], now)
         r == Tick(m.linear, m.angular, now)
     IN /\ r.ubAt = "none"
        /\ msgs' = [msgs EXCEPT ![slot] = m]
        /\ TickEffects(r)
        /\ last' = TickLast(r)
  /\ UNCHANGED <<lifecycle, now, conf, subscription, subscriber_is_active_, slot,
                 is_halted, registered, rt, cb>>

\* update() reaching a statement with undefined behaviour (an index past a
\* handle list, front()/back()/pop() of the empty history): what it did
\* before that statement stands, and it then either crashes or returns
UpdateUndefined ==
  /\ lifecycle \in {"unconfigured", "active"}
  /\ slot # 0
  /\ LET m == Overridden(msgs[slot], now)
         r == Tick(m.linear, m.angular, now)
     IN /\ r.ubAt # "none"
        /\ msgs' = [msgs EXCEPT ![slot] = m]
        /\ TickEffects(r)
        /\ last' = TickLast(r)
  /\ lifecycle' \in {lifecycle, "crashed"}
  /\ UNCHANGED <<now, conf, subscription, subscriber_is_active_, slot,
                 is_halted, registered, rt, cb>>

update == UpdateInactive \/ UpdateNull \/ UpdateTick \/ UpdateUndefined

(***************************************************************************)
(* update() and the subscriber callbacks statement by statement, as the   *)
(* real-time thread and the executor thread interleave them while the      *)
(* controller is active.                                                   *)
(***************************************************************************)
\* current_time = now(); received_velocity_msg_ptr_.get(last_msg)
UpdateGet ==
  /\ lifecycle = "active"
  /\ rt.pc = "idle"
  /\ slot # 0
  /\ rt' = [RtIdle EXCEPT !.pc = "stamp", !.ptr = slot, !.time = now]
  /\ last' = Did("update", "none")
  /\ UNCHANGED <<lifecycle, now, conf, subscription, subscriber_is_active_, slot, msgs,
                 previous_commands_, odometry_, previous_update_timestamp_,
                 previous_publish_timestamp_, is_halted, registered, setpoint, cb>>

\* dt = current_time - last_msg->header.stamp; dt > cmd_vel_timeout_
UpdateReadStamp ==
  /\ rt.pc = "stamp"
  /\ LET stale == IsStale(msgs[rt.ptr], rt.time)
         midWrite == cb.pc = "stamp" /\ cb.ptr = rt.ptr
     IN rt' = [rt EXCEPT !.pc = IF stale THEN "override" ELSE "copy",
                         !.stale = stale,
                         !.paired = IF midWrite THEN <<>>
                                    ELSE <<msgs[rt.ptr].linear, msgs[rt.ptr].angular>>]
  /\ last' = Did("update", "none")
  /\ UNCHANGED <<lifecycle, now, conf, subscription, subscriber_is_active_, slot, msgs,
                 previous_commands_, odometry_, previous_update_timestamp_,
                 previous_publish_timestamp_, is_halted, registered, setpoint, cb>>

\* last_msg->twist.linear.x = 0.0; last_msg->twist.angular.z = 0.0
UpdateOverride ==
  /\ rt.pc = "override"
  /\ msgs' = [msgs EXCEPT ![rt.ptr] = [@ EXCEPT !.linear = 0, !.angular = 0]]
  /\ rt' = [rt EXCEPT !.pc = "copy"]
  /\ last' = Did("update", "none")
  /\ UNCHANGED <<lifecycle, now, conf, subscription, subscriber_is_active_, slot,
                 previous_commands_, odometry_, previous_update_timestamp_,
                 previous_publish_timestamp_, is_halted, registered, setpoint, cb>>

\* command = *last_msg, and the rest of update() on that copy
UpdateCopyAndRun ==
  /\ rt.pc = "copy"
  /\ LET m == msgs[rt.ptr]
         r == Tick(m.linear, m.angular, rt.time)
     IN /\ r.ubAt = "none"
        /\ TickEffects(r)
        /\ rt' = RtIdle
        /\ msgs' = [i \in MsgIds |-> IF i = slot THEN msgs[i] ELSE EmptyTwist]
        /\ last' = TickLast(r)
  /\ UNCHANGED <<lifecycle, now, conf, subscription, subscriber_is_active_, slot,
                 is_halted, registered, cb>>

\* the unstamped callback: received_velocity_msg_ptr_.get(twist_stamped)
UnstampedGet ==
  \E twist \in TwistChoices :
    /\ subscription = "unstamped"
    /\ subscriber_is_active_
    /\ cb.pc = "idle"
    /\ slot # 0
    /\ cb' = [cb EXCEPT !.pc = "twist", !.ptr = slot,
                        !.linear = twist.linear, !.angular = twist.angular]
    /\ last' = Did("command", "none")
    /\ UNCHANGED <<lifecycle, now, conf, subscription, subscriber_is_active_, slot, msgs,
                   previous_commands_, odometry_, previous_update_timestamp_,
                   previous_publish_timestamp_, is_halted, registered, setpoint, rt>>

\* twist_stamped->twist = *msg
UnstampedWriteTwist ==
  /\ cb.pc = "twist"
  /\ msgs' = [msgs EXCEPT ![cb.ptr] = [@ EXCEPT !.linear = cb.linear, !.angular = cb.angular]]
  /\ cb' = [cb EXCEPT !.pc = "stamp"]
  /\ last' = Did("command", "none")
  /\ UNCHANGED <<lifecycle, now, conf, subscription, subscriber_is_active_, slot,
                 previous_commands_, odometry_, previous_update_timestamp_,
                 previous_publish_timestamp_, is_halted, registered, setpoint, rt>>

\* twist_stamped->header.stamp = now()
UnstampedWriteStamp ==
  /\ cb.pc = "stamp"
  /\ msgs' = [msgs EXCEPT ![cb.ptr] = [@ EXCEPT !.stamp = now]]
  /\ cb' = CbIdle
  /\ last' = DidStore(0)
  /\ UNCHANGED <<lifecycle, now, conf, subscription, subscriber_is_active_, slot,
                 previous_commands_, odometry_, previous_update_timestamp_,
                 previous_publish_timestamp_, is_halted, registered, setpoint, rt>>

\* an active controller right after on_configure and on_activate, in open
\* loop, with the command interfaces at zero
RaceInit ==
  \E p \in ParamChoices :
    /\ ~WheelNamesRejected(p.names) /\ ~SteeringNamesRejected(p.names)
    /\ ~LimiterFailed(p)
    /\ p.open_loop
    /\ lifecycle = "active"
    /\ now = 1
    /\ conf = Configured(p)
    /\ subscription = IF p.use_stamped_vel THEN "stamped" ELSE "unstamped"
    /\ subscriber_is_active_ = TRUE
    /\ slot = 1
    /\ msgs = [i \in MsgIds |-> EmptyTwist]
    /\ previous_commands_ = <<EmptyCommand, EmptyCommand>>
    /\ odometry_ = OdometryInit
    /\ previous_update_timestamp_ = 1
    /\ previous_publish_timestamp_ = 4
    /\ is_halted = FALSE
    /\ registered =
         [left_wheel |-> p.names.left_wheel_names,
          right_wheel |-> p.names.right_wheel_names,
          middle_wheel |-> p.names.middle_wheel_names,
          left_steering |-> p.names.left_steering_names,
          right_steering |-> p.names.right_steering_names]
    /\ setpoint = [j \in Joints |-> IF j \in WheelJoints THEN Zerov ELSE ZeroA]
    /\ rt = RtIdle
    /\ cb = CbIdle
    /\ last = Did("on_activate", "SUCCESS")

NextRace ==
  \/ UpdateGet
  \/ UpdateReadStamp
  \/ UpdateOverride
  \/ UpdateCopyAndRun
  \/ StampedCommand
  \/ UnstampedGet
  \/ UnstampedWriteTwist
  \/ UnstampedWriteStamp
  \/ AdvanceTime

SpecRace == RaceInit /\ [][NextRace]_vars

(***************************************************************************)
(* The solver over signed commands: an active open-loop controller without *)
(* limits has received a twist with components in -MaxSpeed..MaxSpeed and  *)
(* ticks on it; it is deactivated, halted and activated again.             *)
(***************************************************************************)
\* linear and angular of a command lie in -MaxSpeed..MaxSpeed
MaxSpeed == 2

SolverTwists ==
  {[linear |-> l, angular |-> a] : l \in (0 - MaxSpeed)..MaxSpeed, a \in (0 - MaxSpeed)..MaxSpeed}

\* geometry parameters the solver is explored with: a symmetric vehicle, and
\* one whose right wheels have twice the radius of the left ones
SolverGeometryChoices ==
  {[wheel_base |-> 1, wheel_separation |-> 1, wheels_per_side |-> 2, wheel_radius |-> 1,
    wheel_base_multiplier |-> 1, wheel_separation_multiplier |-> 1,
    left_wheel_radius_multiplier |-> 1, right_wheel_radius_multiplier |-> 1,
    angular_velocity_compensation |-> 1, steering_angle_correction |-> 1],
   [wheel_base |-> 1, wheel_separation |-> 1, wheels_per_side |-> 2, wheel_radius |-> 1,
    wheel_base_multiplier |-> 3, wheel_separation_multiplier |-> 1,
    left_wheel_radius_multiplier |-> 1, right_wheel_radius_multiplier |-> 2,
    angular_velocity_compensation |-> 1, steering_angle_correction |-> 1]}

SolverParamChoices ==
  {[names |-> VehicleNames, geometry |-> g, limiters |-> Unlimited,
    open_loop |-> TRUE, use_stamped_vel |-> TRUE,
    cmd_vel_timeout |-> t, publish_period |-> pp] :
     g \in SolverGeometryChoices, t \in TimeoutChoices, pp \in PublishPeriodChoices}

\* an active controller after on_configure, on_activate and the first
\* message of the stamped topic
SolverInit ==
  \E p \in SolverParamChoices, twist \in SolverTwists :
    /\ lifecycle = "active"
    /\ now = 1
    /\ conf = Configured(p)
    /\ subscription = "stamped"
    /\ subscriber_is_active_ = TRUE
    /\ slot = 2
    /\ msgs = [i \in MsgIds |->
                 IF i = 2 THEN [linear |-> twist.linear, angular |-> twist.angular, stamp |-> 1]
                 ELSE EmptyTwist]
    /\ previous_commands_ = <<EmptyCommand, EmptyCommand>>
    /\ odometry_ = OdometryInit
    /\ previous_update_timestamp_ = 1
    /\ previous_publish_timestamp_ = 4
    /\ is_halted = FALSE
    /\ registered =
         [left_wheel |-> p.names.left_wheel_names,
          right_wheel |-> p.names.right_wheel_names,
          middle_wheel |-> p.names.middle_wheel_names,
          left_steering |-> p.names.left_steering_names,
          right_steering |-> p.names.right_steering_names]
    /\ setpoint = [j \in Joints |-> IF j \in WheelJoints THEN Zerov ELSE ZeroA]
    /\ rt = RtIdle
    /\ cb = CbIdle
    /\ last = DidStore(0)

NextSolver ==
  \/ UpdateTick
  \/ on_deactivate
  \/ UpdateInactive
  \/ on_activate

SpecSolver == SolverInit /\ [][NextSolver]_vars

(***************************************************************************)
(* The configurations on_configure accepts: the controller is configured   *)
(* with a geometry or with name lists that pass every check on_configure   *)
(* makes, activated, and ticks on the commands it receives.                *)
(***************************************************************************)
\* geometry parameters: the vehicle's, a zero wheel separation, a zero wheel
\* radius, a negative wheel base
AcceptedGeometryChoices ==
  LET vehicle == CHOOSE g \in GeometryChoices : TRUE
  IN {vehicle,
      [vehicle EXCEPT !.wheel_separation = 0],
      [vehicle EXCEPT !.wheel_radius = 0],
      [vehicle EXCEPT !.wheel_base = 0 - 1]}

\* name lists that pass the checks of on_configure: the vehicle's, one
\* middle wheel, one steering joint on each side
AcceptedNameChoices ==
  {VehicleNames,
   [VehicleNames EXCEPT !.middle_wheel_names = <<"wheel_mr">>],
   [VehicleNames EXCEPT !.left_steering_names = <<"steer_lf">>,
                        !.right_steering_names = <<"steer_rf">>]}

\* every geometry with the vehicle's names in open loop; every name list
\* with the vehicle's geometry in open and in closed loop
AcceptedParamChoices ==
  {[names |-> c[1], geometry |-> c[2], limiters |-> Unlimited,
    open_loop |-> c[3], use_stamped_vel |-> TRUE,
    cmd_vel_timeout |-> t, publish_period |-> pp] :
     c \in ({VehicleNames} \X AcceptedGeometryChoices \X {TRUE})
             \cup (AcceptedNameChoices \X GeometryChoices \X BOOLEAN),
     t \in TimeoutChoices, pp \in PublishPeriodChoices}

ConfigureAccepted == \E p \in AcceptedParamChoices : OnConfigureSuccess(p)

NextAccepted ==
  \/ ConfigureAccepted
  \/ on_activate
  \/ StampedCommand
  \/ UpdateTick
  \/ UpdateUndefined

SpecAccepted == Init /\ [][NextAccepted]_vars

(***************************************************************************)
(* The command source falls silent: an active controller holds the last   *)
(* command it received; update() keeps being called and the clock keeps    *)
(* advancing, and no further message arrives.                              *)
(***************************************************************************)
\* the vehicle in open and in closed loop, without limits
FailSafeParamChoices ==
  {[names |-> VehicleNames, geometry |-> g, limiters |-> Unlimited,
    open_loop |-> o, use_stamped_vel |-> TRUE,
    cmd_vel_timeout |-> t, publish_period |-> pp] :
     g \in GeometryChoices, o \in BOOLEAN, t \in TimeoutChoices,
     pp \in PublishPeriodChoices}

\* an active controller after on_configure, on_activate and the last
\* message of the stamped topic; the command interfaces hold what the
\* hardware initialised them to
FailSafeInit ==
  \E p \in FailSafeParamChoices, twist \in SolverTwists :
    /\ lifecycle = "active"
    /\ now = 1
    /\ conf = Configured(p)
    /\ subscription = "stamped"
    /\ subscriber_is_active_ = TRUE
    /\ slot = 2
    /\ msgs = [i \in MsgIds |->
                 IF i = 2 THEN [linear |-> twist.linear, angular |-> twist.angular, stamp |-> 1]
                 ELSE EmptyTwist]
    /\ previous_commands_ = <<EmptyCommand, EmptyCommand>>
    /\ odometry_ = OdometryInit
    /\ previous_update_timestamp_ = 1
    /\ previous_publish_timestamp_ = 4
    /\ is_halted = FALSE
    /\ registered =
         [left_wheel |-> p.names.left_wheel_names,
          right_wheel |-> p.names.right_wheel_names,
          middle_wheel |-> p.names.middle_wheel_names,
          left_steering |-> p.names.left_steering_names,
          right_steering |-> p.names.right_steering_names]
    /\ setpoint \in HardwareInitial
    /\ rt = RtIdle
    /\ cb = CbIdle
    /\ last = DidStore(0)

NextFailSafe ==
  \/ UpdateTick
  \/ AdvanceTime

\* time passes, and the controller manager calls update() periodically:
\* again and again the operation run last is a tick
SpecFailSafe ==
  /\ FailSafeInit /\ [][NextFailSafe]_vars
  /\ WF_vars(AdvanceTime)
  /\ []<>(last.op = "update")

Next ==
  \/ on_configure
  \/ on_activate
  \/ on_deactivate
  \/ on_cleanup
  \/ on_error
  \/ on_shutdown
  \/ Command
  \/ AdvanceTime
  \/ update

Spec == Init /\ [][Next]_vars

(***************************************************************************)
(* Properties.  A step of update() is one with last'.op = "update"; a tick *)
(* is active when it runs in lifecycle state "active".                     *)
(***************************************************************************)
ActiveTick == lifecycle = "active" /\ last'.op = "update" /\ slot # 0

\* the command a tick uses: the stored one after the staleness substitution
UsedCommand ==
  IF 2 * (now - msgs[slot].stamp) > conf.cmd_vel_timeout_
    THEN [linear |-> 0, angular |-> 0]
    ELSE [linear |-> msgs[slot].linear, angular |-> msgs[slot].angular]

\* the limiters' output for the command c on a tick run now
Limited(c) ==
  [linear |-> limit(conf.limiter_linear_, c.linear, previous_commands_[2].linear,
                    previous_commands_[1].linear, now - previous_update_timestamp_),
   angular |-> limit(conf.limiter_angular_, c.angular, previous_commands_[2].angular,
                     previous_commands_[1].angular, now - previous_update_timestamp_)]

UndefinedGeometry(c) == c.linear = 0 /\ c.angular # 0

RegisteredJoints ==
  UNION {JointsOf(registered[side]) : side \in DOMAIN registered}

ZeroSetpoint(j) == IF j \in WheelJoints THEN Zerov ELSE ZeroA

\* C1: an active tick whose command has linear = 0 and angular # 0, before
\* or only after the limiters, returns ERROR and leaves every setpoint as it was
C1_UndefinedGeometryRejected ==
  [][(ActiveTick /\ (UndefinedGeometry(UsedCommand) \/ UndefinedGeometry(Limited(UsedCommand))))
       => (last'.ret = "ERROR" /\ setpoint' = setpoint)]_vars

\* an active tick has ended at the check that follows the limiters
C1_Witness ==
  /\ lifecycle = "active"
  /\ last.op = "update" /\ last.at = "limited" /\ last.ret = "ERROR"

\* C2: an active tick on a stale command uses (0, 0): open-loop odometry is
\* updated with (0, 0), the limiters are fed (0, 0), and with the limiters
\* disabled every setpoint the tick writes is zero
C2_StaleCommandIsZero ==
  [][(ActiveTick /\ 2 * (now - msgs[slot].stamp) > conf.cmd_vel_timeout_)
       => /\ conf.open_loop => odometry_' = updateOpenLoop(odometry_, 0, 0, now)
          /\ last'.at \in {"limited", "end"}
               => previous_commands_'[2] = Limited([linear |-> 0, angular |-> 0])
          /\ (last'.ret = "OK" /\ conf.limiter_linear_ = NoLimits
                /\ conf.limiter_angular_ = NoLimits)
               => \A j \in RegisteredJoints : setpoint'[j] = ZeroSetpoint(j)]_vars

\* an open-loop active tick has written setpoints for a received command
\* that is stale
C2_Witness ==
  /\ lifecycle = "active" /\ conf.open_loop
  /\ last.op = "update" /\ last.ret = "OK"
  /\ slot # 0 /\ msgs[slot].stamp # 0
  /\ 2 * (now - msgs[slot].stamp) > conf.cmd_vel_timeout_

\* C3 as stated: a tick does not modify the stored command
C3_StoredCommandUntouched ==
  [][last'.op = "update" => (slot' = slot /\ msgs' = msgs)]_vars

\* C3 amended: a tick on a stale command overwrites the stored linear and
\* angular values with 0 and keeps the stamp; a tick on a fresh command
\* leaves the stored command as it is
C3_StaleOverrideStored ==
  [][(last'.op = "update" /\ lifecycle # "inactive" /\ slot # 0)
       => /\ slot' = slot
          /\ msgs'[slot] =
               IF 2 * (now - msgs[slot].stamp) > conf.cmd_vel_timeout_
                 THEN [linear |-> 0, angular |-> 0, stamp |-> msgs[slot].stamp]
                 ELSE msgs[slot]]_vars

\* a closed-loop tick has run on a received command that is stale: the slot
\* holds zeros under the command's stamp
C3_Witness ==
  /\ lifecycle = "active" /\ ~conf.open_loop
  /\ last.op = "update"
  /\ slot # 0 /\ msgs[slot].stamp # 0
  /\ 2 * (now - msgs[slot].stamp) > conf.cmd_vel_timeout_
  /\ msgs[slot].linear = 0 /\ msgs[slot].angular = 0

\* C5 as stated: in open loop the pair passed to updateOpenLoop is the
\* limiters' output of the tick
C5_OdometryGetsLimitedCommand ==
  [][(ActiveTick /\ conf.open_loop /\ last'.at \in {"limited", "end"})
       => odometry_' = updateOpenLoop(odometry_, previous_commands_'[2].linear,
                                      previous_commands_'[2].angular, now)]_vars

\* C6 as stated: a tick that runs the limiters starts and ends with a
\* history of two entries, the newest becoming the older one
C6_HistoryHoldsTwo ==
  [][(last'.op = "update" /\ last'.at \in {"history", "limited", "write", "end"})
       => /\ Len(previous_commands_) = 2
          /\ Len(previous_commands_') = 2
          /\ previous_commands_'[1] = previous_commands_[2]]_vars

\* a reading of index 1..wheels_per_side that the closed-loop tick takes
FeedbackReadings ==
  {Reading(side, i) : side \in FeedbackSides, i \in 1..Wps}

\* C7: a closed-loop active tick with a NaN wheel-speed or steering reading
\* returns ERROR and leaves the pose and the velocity estimate as they were
C7_NaNFeedbackRejected ==
  [][(ActiveTick /\ ~conf.open_loop /\ \E r \in FeedbackReadings : r.k = "nan")
       => (last'.ret = "ERROR" /\ odometry_' = odometry_)]_vars

\* a closed-loop active tick has ended at the check of the readings
C7_Witness ==
  /\ lifecycle = "active" /\ ~conf.open_loop
  /\ last.op = "update" /\ last.at = "feedback" /\ last.ret = "ERROR"

\* C8 as stated: a closed-loop active tick with an infinite reading returns
\* ERROR and leaves the odometry as it was
C8_InfiniteFeedbackRejected ==
  [][(ActiveTick /\ ~conf.open_loop /\ \E r \in FeedbackReadings : r.k = "inf")
       => (last'.ret = "ERROR" /\ odometry_' = odometry_)]_vars

\* C9: an update() while inactive returns OK, leaves every registered
\* setpoint at zero, changes no setpoint once halted, and changes neither
\* the odometry, the history nor the timestamps
C9_InactiveUpdateHalts ==
  [][(lifecycle = "inactive" /\ last'.op = "update")
       => /\ last'.ret = "OK"
          /\ \A j \in RegisteredJoints : setpoint'[j] = ZeroSetpoint(j)
          /\ is_halted => setpoint' = setpoint
          /\ UNCHANGED <<odometry_, previous_commands_, previous_update_timestamp_,
                         previous_publish_timestamp_>>]_vars

\* an inactive update() has run after a deactivation that followed motion
C9_Witness ==
  /\ lifecycle = "inactive" /\ is_halted
  /\ last.op = "update" /\ last.at = "inactive"
  /\ Len(registered.left_wheel) > 0
  /\ odometry_.pose # <<>>

ResetOps == {"on_configure", "on_cleanup", "on_error"}

\* C10 as stated: the halt state is left only through reset()
C10_HaltLeftOnlyByReset ==
  [][(is_halted /\ ~is_halted') => last'.op \in ResetOps]_vars

\* C10 amended: the halt state is left only through reset() or a successful
\* on_activate, and while it lasts no step changes a setpoint
C10_HaltLeftByResetOrActivate ==
  [][/\ (is_halted /\ ~is_halted')
          => \/ last'.op \in ResetOps
             \/ last'.op = "on_activate" /\ last'.ret = "SUCCESS"
     /\ is_halted => setpoint' = setpoint]_vars

\* a tick has written non-zero setpoints through handles registered by a
\* second activation that no reset() preceded
C10_Witness ==
  /\ lifecycle = "active" /\ ~is_halted
  /\ Len(registered.left_wheel) > Len(conf.left_wheel_names_)
  /\ last.op = "update" /\ last.ret = "OK"
  /\ \E j \in RegisteredJoints : setpoint[j] # ZeroSetpoint(j)

\* C4 as stated: the twist a tick copies is the one that was stored
\* together with the stamp the tick read (the zero twist when that stamp
\* is stale)
C4_CommandReadWhole ==
  [][(rt.pc = "copy" /\ rt'.pc = "idle")
       => /\ rt.paired # <<>>
          /\ <<msgs[rt.ptr].linear, msgs[rt.ptr].angular>> =
               IF rt.stale THEN <<0, 0>> ELSE rt.paired]_vars

\* C11 as stated: on_error leaves at zero the setpoint of every joint whose
\* handle it releases
C11_ErrorHalts ==
  [][last'.op = "on_error"
       => \A j \in RegisteredJoints : setpoint'[j] = ZeroSetpoint(j)]_vars

(***************************************************************************)
(* Properties of the solver, under SpecSolver.  A solver tick is an active *)
(* tick that passes the solver and writes the setpoints; its shaped        *)
(* command is the one it appends to the history.                           *)
(***************************************************************************)
SolverTick == ActiveTick /\ last'.ret = "OK" /\ last'.at = "end"

Shaped == previous_commands_'[2]

\* the joints behind the handles update() writes the left and the right
\* wheel speeds to (middle handle 1 is the right one, 2 the left one)
LeftWheels == JointsOf(registered.left_wheel) \cup {registered.middle_wheel[2]}

RightWheels == JointsOf(registered.right_wheel) \cup {registered.middle_wheel[1]}

SteeringHandles == JointsOf(registered.left_steering) \cup JointsOf(registered.right_steering)

\* |linear| / (wheel radius x radius multiplier) of each side
StraightLeft == AbsDiv(Shaped.linear,
                       conf.wheel_params_.left_radius_multiplier * conf.wheel_params_.radius)

StraightRight == AbsDiv(Shaped.linear,
                        conf.wheel_params_.right_radius_multiplier * conf.wheel_params_.radius)

\* C12 as stated: a tick on a shaped command with angular = 0 writes 0 to the
\* four steering setpoints and |linear| / (radius x side multiplier) to the
\* wheel setpoints of each side
C12_StraightSpeeds ==
  [][(SolverTick /\ Shaped.angular = 0)
       => /\ \A j \in SteeringHandles : setpoint'[j] = ZeroA
          /\ \A j \in LeftWheels : setpoint'[j] = StraightLeft
          /\ \A j \in RightWheels : setpoint'[j] = StraightRight]_vars

\* C12 amended: the wheel setpoints have that magnitude and the sign of
\* linear (positive for linear > 0, negative otherwise)
C12_StraightSignedSpeeds ==
  [][(SolverTick /\ Shaped.angular = 0)
       => LET sign == IF Shaped.linear > 0 THEN 1 ELSE 0 - 1
          IN /\ \A j \in SteeringHandles : setpoint'[j] = ZeroA
             /\ \A j \in LeftWheels : setpoint'[j] = Scale(StraightLeft, sign)
             /\ \A j \in RightWheels : setpoint'[j] = Scale(StraightRight, sign)]_vars

\* a tick has written the setpoints of a straight reverse command on the
\* vehicle whose right wheels are larger
C12_Witness ==
  /\ last.op = "update" /\ last.ret = "OK"
  /\ previous_commands_[2].angular = 0 /\ previous_commands_[2].linear < 0
  /\ conf.wheel_params_.right_radius_multiplier # conf.wheel_params_.left_radius_multiplier
  /\ setpoint[registered.left_wheel[1]] # setpoint[registered.right_wheel[1]]
  /\ setpoint[registered.left_wheel[1]].s < 0

\* C13: quadrant(linear, angular) of every stored command lies in 0..3 and
\* is 0 for linear > 0, angular >= 0; 1 for linear > 0, angular < 0; 2 for
\* linear < 0, angular > 0; 3 for linear < 0, angular <= 0
C13_QuadrantTable ==
  \A i \in MsgIds :
    LET l == msgs[i].linear
        a == msgs[i].angular
        q == quadrant(l, a)
    IN /\ q \in 0..3
       /\ (l > 0 /\ a >= 0) => q = 0
       /\ (l > 0 /\ a < 0) => q = 1
       /\ (l < 0 /\ a > 0) => q = 2
       /\ (l < 0 /\ a <= 0) => q = 3

\* a tick has solved the boundary command linear < 0, angular = 0 and has
\* written the reversed wheel speeds of quadrant 3
C13_Witness ==
  /\ last.op = "update" /\ last.ret = "OK"
  /\ slot # 0 /\ msgs[slot].linear < 0 /\ msgs[slot].angular = 0
  /\ quadrant(msgs[slot].linear, msgs[slot].angular) = 3
  /\ \A j \in WheelJoints : setpoint[j].s < 0

\* the sign table as the specification gives it: rows for quadrants 0..3,
\* columns left-steering, right-steering, left-speed, right-speed
SignTable ==
  << <<1, 1, 1, 1>>,
     <<0 - 1, 0 - 1, 1, 1>>,
     <<0 - 1, 0 - 1, 0 - 1, 0 - 1>>,
     <<1, 1, 0 - 1, 0 - 1>> >>

\* a solver tick on a curved command
CurvedTick == SolverTick /\ Shaped.linear # 0 /\ Shaped.angular # 0

\* C14: a tick on a curved command of quadrant q writes left-steering,
\* right-steering, left-speed and right-speed outputs that are row q of the
\* sign table times non-negative near and far values; the near values (from
\* 2 * turningRadius - wheelBase, middle speed from turningRadius -
\* wheelBase) go to the left in quadrants 0 and 3 and to the right in 1 and 2
C14_SignsAndSides ==
  [][CurvedTick
       => LET l == Shaped.linear
              a == Shaped.angular
              w == conf.wheel_params_
              g == Geometry(w)
              q == IF l > 0 THEN (IF a > 0 THEN 0 ELSE 1) ELSE (IF a > 0 THEN 2 ELSE 3)
              row == SignTable[q + 1]
              nearLeft == q \in {0, 3}
              nf == SolveNearFar(l, a, g)
              near == [angle |-> nf.angle_left, speed |-> nf.velocity_left,
                       mid |-> nf.velocity_mid_left]
              far == [angle |-> nf.angle_right, speed |-> nf.velocity_right,
                      mid |-> nf.velocity_mid_right]
              left == IF nearLeft THEN near ELSE far
              right == IF nearLeft THEN far ELSE near
          IN /\ near.angle = AcotA(2 * Abs(l) - g.wheel_base * Abs(a),
                                   g.wheel_separation * Abs(a))
             /\ near.mid = Scale(AbsDiv(Abs(l) - g.wheel_base * Abs(a), g.left_wheel_radius),
                                 g.ang_vel_comp)
             /\ near.angle.s >= 0 /\ far.angle.s >= 0
             /\ near.speed.s >= 0 /\ far.speed.s >= 0 /\ near.mid.s >= 0 /\ far.mid.s >= 0
             /\ setpoint'[registered.left_steering[1]] =
                  ScaleA(left.angle, row[1] * g.steering_correction)
             /\ setpoint'[registered.right_steering[2]] =
                  ScaleA(right.angle, row[2] * g.steering_correction)
             /\ \A j \in JointsOf(registered.left_wheel) :
                  setpoint'[j] = Scale(left.speed, row[3])
             /\ \A j \in JointsOf(registered.right_wheel) :
                  setpoint'[j] = Scale(right.speed, row[4])
             /\ setpoint'[registered.middle_wheel[2]] = Scale(left.mid, row[3])
             /\ setpoint'[registered.middle_wheel[1]] = Scale(right.mid, row[4])]_vars

\* a tick has written the setpoints of a command of quadrant 1, where near
\* and far are swapped and the steering signs are negative
C14_Witness ==
  /\ last.op = "update" /\ last.ret = "OK"
  /\ previous_commands_[2].linear > 0 /\ previous_commands_[2].angular < 0
  /\ setpoint[registered.left_steering[1]].s < 0
  /\ setpoint[registered.left_wheel[1]].s > 0

\* C15: the setpoints a tick writes for a curved command (linear, angular)
\* and those a tick on (-linear, -angular) writes from the same state have
\* the same four steering values and negated wheel speeds
C15_ReversalSymmetry ==
  [][CurvedTick
       => LET rev == Tick(0 - Shaped.linear, 0 - Shaped.angular, now)
          IN /\ rev.ret = "OK"
             /\ \A j \in SteeringHandles : setpoint'[j] = rev.setpoint[j]
             /\ \A j \in LeftWheels \cup RightWheels :
                  setpoint'[j] = NegV(rev.setpoint[j])]_vars

\* a tick has written the setpoints of a command of quadrant 3: positive
\* steering outputs, reversed wheels
C15_Witness ==
  /\ last.op = "update" /\ last.ret = "OK"
  /\ previous_commands_[2].linear < 0 /\ previous_commands_[2].angular < 0
  /\ setpoint[registered.left_steering[1]].s > 0
  /\ \A j \in WheelJoints : setpoint[j].s < 0

\* C16: the setpoints a tick writes for a curved command (linear, angular)
\* are those a tick on (linear, -angular) writes from the same state with
\* left and right exchanged: wheel speeds (front, rear, middle) and the
\* front and rear steering setpoints
C16_MirrorSymmetry ==
  [][CurvedTick
       => LET mir == Tick(Shaped.linear, 0 - Shaped.angular, now)
          IN /\ mir.ret = "OK"
             /\ \A i \in 1..Wps :
                  /\ setpoint'[registered.left_wheel[i]] = mir.setpoint[registered.right_wheel[i]]
                  /\ setpoint'[registered.right_wheel[i]] = mir.setpoint[registered.left_wheel[i]]
             /\ setpoint'[registered.middle_wheel[2]] = mir.setpoint[registered.middle_wheel[1]]
             /\ setpoint'[registered.middle_wheel[1]] = mir.setpoint[registered.middle_wheel[2]]
             /\ \A i \in 1..2 :
                  /\ setpoint'[registered.left_steering[i]] =
                       mir.setpoint[registered.right_steering[i]]
                  /\ setpoint'[registered.right_steering[i]] =
                       mir.setpoint[registered.left_steering[i]]]_vars

\* a tick has written the setpoints of a command of quadrant 2 on the
\* vehicle whose right wheels are larger: the two sides differ
C16_Witness ==
  /\ last.op = "update" /\ last.ret = "OK"
  /\ previous_commands_[2].linear < 0 /\ previous_commands_[2].angular > 0
  /\ conf.wheel_params_.right_radius_multiplier # conf.wheel_params_.left_radius_multiplier
  /\ setpoint[registered.left_wheel[1]] # setpoint[registered.right_wheel[1]]
  /\ setpoint[registered.left_steering[1]] # setpoint[registered.right_steering[1]]

\* C17: after a tick that writes setpoints and after a halt, the rear
\* steering setpoint of each side is the negation of the front one; the tick
\* writes {left, -right} of the solved pair to the front and {-left, right}
\* to the rear
C17_RearCounterSteers ==
  [][(SolverTick \/ (lifecycle = "inactive" /\ ~is_halted /\ last'.op = "update"))
       => /\ \A side \in {"left_steering", "right_steering"} :
               Len(registered[side]) >= 2
                 => setpoint'[registered[side][2]] = NegA(setpoint'[registered[side][1]])
          /\ SolverTick
               => LET out == SolveSigned(Shaped.linear, Shaped.angular,
                                         Geometry(conf.wheel_params_))
                  IN /\ setpoint'[registered.left_steering[1]] = out.steering_angle_left
                     /\ setpoint'[registered.right_steering[1]] = NegA(out.steering_angle_right)
                     /\ setpoint'[registered.left_steering[2]] = NegA(out.steering_angle_left)
                     /\ setpoint'[registered.right_steering[2]] = out.steering_angle_right]_vars

\* a tick has written non-zero steering setpoints, the rear ones opposite
\* to the front ones
C17_Witness ==
  /\ last.op = "update" /\ last.ret = "OK" /\ last.at = "end"
  /\ setpoint[registered.left_steering[1]].s > 0
  /\ setpoint[registered.left_steering[2]].s < 0
  /\ setpoint[registered.right_steering[1]].s < 0
  /\ setpoint[registered.right_steering[2]].s > 0

\* C18 as stated: an active tick that follows, with no time passed, an
\* active tick that published the odometry (the publish period is positive)
\* does not publish
C18_PublicationThrottled ==
  [][(ActiveTick /\ last.op = "update" /\ last.ret = "OK" /\ last.published
        /\ conf.publish_period_ > 0)
       => ~last'.published]_vars

\* the name checks of on_configure applied to the name lists it has stored
StoredNamesRejected(c) ==
  \/ Len(c.left_wheel_names_) # Len(c.right_wheel_names_)
  \/ Len(c.left_wheel_names_) = 0
  \/ Len(c.middle_wheel_names_) = 0
  \/ Len(c.left_steering_names_) # Len(c.right_steering_names_)
  \/ Len(c.left_steering_names_) = 0

\* C19: an on_configure that has read left and right wheel names of
\* different length, no left wheel names, no middle wheel names, left and
\* right steering names of different length or no left steering names
\* returns ERROR and leaves the node in error processing; an active
\* controller never holds such name lists
C19_BadNamesFailConfigure ==
  [][/\ (last'.op = "on_configure" /\ StoredNamesRejected(conf'))
          => (last'.ret = "ERROR" /\ lifecycle' = "errorprocessing")
     /\ lifecycle' = "active" => ~StoredNamesRejected(conf')]_vars

\* on_configure has returned ERROR on steering name lists of different
\* length, after wheel name lists that passed
C19_Witness ==
  /\ lifecycle = "errorprocessing"
  /\ last.op = "on_configure" /\ last.ret = "ERROR"
  /\ Len(conf.left_wheel_names_) = Len(conf.right_wheel_names_)
  /\ Len(conf.left_wheel_names_) > 0 /\ Len(conf.middle_wheel_names_) > 0
  /\ Len(conf.left_steering_names_) # Len(conf.right_steering_names_)

\* C20 as stated: an on_configure during which the constructor of the
\* linear or the angular limiter fails does not return SUCCESS and does not
\* leave the controller configured
C20_LimiterFailureFailsConfigure ==
  [][(last'.op = "on_configure" /\ last'.at = "limiter")
       => (last'.ret # "SUCCESS" /\ lifecycle' # "inactive")]_vars

\* the multiplied wheel base, wheel separation or a wheel radius of the
\* parameters w is zero or negative
NonPositiveGeometry(w) ==
  \/ w.base_multiplier * w.base <= 0
  \/ w.separation_multiplier * w.separation <= 0
  \/ w.left_radius_multiplier * w.radius <= 0
  \/ w.right_radius_multiplier * w.radius <= 0

\* C21: an on_configure run with a wheel base, a wheel separation or a wheel
\* radius (times its multiplier) that is zero or negative does not return
\* SUCCESS, and no controller with such a geometry becomes active
C21_NonPositiveGeometryFailsConfigure ==
  [][/\ (last'.op = "on_configure" /\ NonPositiveGeometry(conf'.wheel_params_))
          => last'.ret # "SUCCESS"
     /\ lifecycle' = "active" => ~NonPositiveGeometry(conf'.wheel_params_)]_vars

\* C22: no active tick that reaches the solver divides by zero there
C22_NoDivisionByZero ==
  [][(ActiveTick /\ last'.at \in {"end", "write"})
       => ~SolverDividesByZero(Shaped.linear, Shaped.angular,
                               Geometry(conf.wheel_params_))]_vars

\* C23: a command the subscriber stores has a non-zero stamp, and one that
\* came without a stamp is stored with the current time, so that a tick run
\* at once does not take it for stale
C23_StoredCommandStamped ==
  [][(last'.op = "command" /\ last'.ret = "stored")
       => /\ msgs'[slot'].stamp # 0
          /\ last'.at = "unset"
               => (msgs'[slot'].stamp = now /\ ~IsStale(msgs'[slot'], now))]_vars

\* a message without a stamp has been stored after the clock has advanced
C23_Witness ==
  /\ last.op = "command" /\ last.ret = "stored" /\ last.at = "unset"
  /\ subscription = "stamped"
  /\ now > 1
  /\ msgs[slot].stamp = now
  /\ msgs[slot].linear # 0

\* the estimate is zero, no handle is registered, the subscriber is
\* inactive and is_halted is false
EstimatorAndLoopReset ==
  /\ odometry_.pose = <<>> /\ odometry_.linear = <<>> /\ odometry_.angular = <<>>
  /\ registered = NoHandles
  /\ ~subscriber_is_active_
  /\ ~is_halted

\* C24 as stated: every on_configure, on_cleanup and on_error leaves the
\* estimate zeroed, the command history empty, the handle lists cleared, the
\* subscriber inactive and removed, and is_halted false
C24_EveryReloadResets ==
  [][last'.op \in {"on_configure", "on_cleanup", "on_error"}
       => (EstimatorAndLoopReset' /\ previous_commands_' = <<>> /\ subscription' = "none")]_vars

\* C24, amended: on_cleanup and on_error leave the state of reset(); an
\* on_configure that returns SUCCESS leaves it too, except that the command
\* history holds two default commands and a new subscription exists
C24_ReloadResets ==
  [][/\ last'.op \in {"on_cleanup", "on_error"}
          => (EstimatorAndLoopReset' /\ previous_commands_' = <<>> /\ subscription' = "none")
     /\ (last'.op = "on_configure" /\ last'.ret = "SUCCESS")
          => /\ EstimatorAndLoopReset'
             /\ previous_commands_' = <<EmptyCommand, EmptyCommand>>
             /\ subscription' # "none"]_vars

\* on_cleanup has reset a controller whose odometry had been updated
C24_Witness ==
  /\ last.op = "on_cleanup"
  /\ odometry_.timestamp_ > 0
  /\ EstimatorAndLoopReset
  /\ previous_commands_ = <<>>
  /\ subscription = "none"

\* C25: an active tick that returns ERROR leaves the odometry, the command
\* history, the previous-update timestamp and every setpoint as they were
C25_ErrorTickChangesNothing ==
  [][(ActiveTick /\ last'.ret = "ERROR")
       => UNCHANGED <<odometry_, previous_commands_, previous_update_timestamp_,
                      setpoint>>]_vars

\* C26: with ticks running and no further command, from some tick on all
\* six wheel speeds and all four steering setpoints are zero
C26_FailSafeStopReached ==
  <>[](\A j \in Joints : setpoint[j] = ZeroSetpoint(j))

\* C27: when the unstamped callback has finished storing a message, the
\* stored command holds that message's linear and angular values; and the
\* stale override of a tick does not zero a stored command whose stamp is
\* within the timeout
C27_AcceptedCommandKept ==
  [][/\ (cb.pc = "stamp" /\ cb'.pc = "idle")
          => (msgs'[slot].linear = cb.linear /\ msgs'[slot].angular = cb.angular)
     /\ (rt.pc = "override" /\ rt'.pc = "copy" /\ rt.ptr = slot)
          => (IsStale(msgs[slot], rt.time) \/ msgs'[slot] = msgs[slot])]_vars

\* C28: a message delivered while subscriber_is_active_ is false leaves the
\* stored command and its stamp as they were; subscriber_is_active_ becomes
\* true only by a successful on_activate, and on_deactivate and every
\* callback that runs reset() leave it false
C28_SubscriberGated ==
  [][/\ (last'.op = "command" /\ ~subscriber_is_active_)
          => (last'.ret = "ignored" /\ UNCHANGED <<slot, msgs>>)
     /\ (~subscriber_is_active_ /\ subscriber_is_active_')
          => (last'.op = "on_activate" /\ last'.ret = "SUCCESS")
     /\ (\/ last'.op \in {"on_deactivate", "on_cleanup", "on_error"}
         \/ (last'.op = "on_configure" /\ last'.ret = "SUCCESS"))
          => ~subscriber_is_active_']_vars

\* a message has been ignored after on_deactivate, the stored command being
\* one received while the controller was active
C28_Witness ==
  /\ last.op = "command" /\ last.ret = "ignored"
  /\ lifecycle = "inactive"
  /\ ~subscriber_is_active_
  /\ slot # 0
  /\ msgs[slot].linear # 0

\* C29: when on_activate returns SUCCESS, each registered handle list holds
\* exactly the handles of its configured joint names, in name order
C29_HandlesMatchNames ==
  [][(last'.op = "on_activate" /\ last'.ret = "SUCCESS")
       => /\ registered'.left_wheel = [i \in 1..Len(conf.left_wheel_names_) |->
                                         Handle(conf.left_wheel_names_[i])]
          /\ registered'.right_wheel = [i \in 1..Len(conf.right_wheel_names_) |->
                                          Handle(conf.right_wheel_names_[i])]
          /\ registered'.middle_wheel = [i \in 1..Len(conf.middle_wheel_names_) |->
                                           Handle(conf.middle_wheel_names_[i])]
          /\ registered'.left_steering = [i \in 1..Len(conf.left_steering_names_) |->
                                            Handle(conf.left_steering_names_[i])]
          /\ registered'.right_steering = [i \in 1..Len(conf.right_steering_names_) |->
                                             Handle(conf.right_steering_names_[i])]]_vars

\* C30: no active tick reads or writes a handle at an index past the end of
\* its registered handle list
C30_HandleIndicesInBounds ==
  [][ActiveTick => ~(last'.ret = "UB" /\ last'.at \in {"feedback", "write"})]_vars

\* C31 as stated: in every reachable state the command history is empty only
\* when the stored command pointer is null, so update() stops at its
\* null-command check before it reads the ends of an empty history
C31_EmptyHistoryOnlyWithNull ==
  (Len(previous_commands_) = 0) => (slot = 0)

\* a wheel speed that is a number >= 0, and one that is a number <= 0
NotNegative(v) == v.k # "nan" /\ v.s >= 0

NotPositive(v) == v.k # "nan" /\ v.s <= 0

\* the tick's geometry has positive wheel radii and a positive
\* angular-velocity compensation
PositiveRadiiAndCompensation ==
  LET g == Geometry(conf.wheel_params_)
  IN g.left_wheel_radius > 0 /\ g.right_wheel_radius > 0 /\ g.ang_vel_comp > 0

\* C32 as stated: on a tick that writes setpoints, with positive wheel radii
\* and positive angular-velocity compensation, the six wheel-speed setpoints
\* are all >= 0 when the shaped linear command is > 0 and all <= 0 otherwise
C32_WheelSpeedsFollowLinear ==
  [][(SolverTick /\ PositiveRadiiAndCompensation)
       => \A j \in RegisteredJoints \cap WheelJoints :
            IF Shaped.linear > 0 THEN NotNegative(setpoint'[j])
            ELSE NotPositive(setpoint'[j])]_vars

\* the speed of a front or rear wheel of radius `radius` for the shaped
\* command (l, a), on the side near the turn centre (axis from
\* 2 * turningRadius - wheelBase) or far from it; and of a middle wheel
\* (turningRadius -+ wheelBase)
AxleSpeedWith(l, a, near, radius) ==
  LET g == Geometry(conf.wheel_params_)
      p == IF near THEN 2 * Abs(l) - g.wheel_base * Abs(a)
           ELSE 2 * Abs(l) + g.wheel_base * Abs(a)
  IN IF a = 0 THEN AbsDiv(l, radius)
     ELSE AxisSpeed(a, p, g.wheel_separation, radius, g.ang_vel_comp)

MiddleSpeedWith(l, a, near, radius) ==
  LET g == Geometry(conf.wheel_params_)
      p == IF near THEN Abs(l) - g.wheel_base * Abs(a)
           ELSE Abs(l) + g.wheel_base * Abs(a)
  IN IF a = 0 THEN AbsDiv(l, radius)
     ELSE Scale(AbsDiv(p, radius), g.ang_vel_comp)

\* C33 as stated: in every quadrant the speed setpoints of the left wheels
\* (front, rear, middle) are computed with the left wheel radius and those
\* of the right wheels with the right wheel radius, whichever side is near
\* the turn centre
C33_SideUsesOwnRadius ==
  [][SolverTick
       => LET l == Shaped.linear
              a == Shaped.angular
              g == Geometry(conf.wheel_params_)
              sign == IF l > 0 THEN 1 ELSE 0 - 1
              nearLeft == (l > 0) = (a > 0)
          IN /\ \A j \in JointsOf(registered.left_wheel) :
                  setpoint'[j] = Scale(AxleSpeedWith(l, a, nearLeft, g.left_wheel_radius), sign)
             /\ \A j \in JointsOf(registered.right_wheel) :
                  setpoint'[j] = Scale(AxleSpeedWith(l, a, ~nearLeft, g.right_wheel_radius), sign)
             /\ setpoint'[registered.middle_wheel[2]] =
                  Scale(MiddleSpeedWith(l, a, nearLeft, g.left_wheel_radius), sign)
             /\ setpoint'[registered.middle_wheel[1]] =
                  Scale(MiddleSpeedWith(l, a, ~nearLeft, g.right_wheel_radius), sign)]_vars

====
